---- MODULE Spec2Model ----
(***************************************************************************)
(* The agro-report bot: the multi-stage report builder                     *)
(* (bot/src/report_builder.py) and the Telegram front end                  *)
(* (bot/src/telegram_bot.py) as one state machine, and beside it the       *)
(* persistence layer (db/interaction.py) and the dashboard script          *)
(* (app/dashboard.py), which the bot does not call.                        *)
(*                                                                         *)
(* Cyrillic literals of the source are transliterated:                     *)
(*   "Data" = date, "Operaciya" = operation, "Dannye" = raw excerpt,       *)
(*   "Podrazdelenie" = division, "Kultura" = culture,                      *)
(*   "Za den, ga" / "S nachala operacii, ga" = area per day / cumulative,  *)
(*   "Val za den, c" / "Val s nachala, c" = yield per day / cumulative.    *)
(*                                                                         *)
(* Python values are records, one shape per Python type, so that values    *)
(* of different types compare unequal:                                     *)
(*   str        [str |-> "..."]                                            *)
(*   date text  [sep |-> ".", a |-> 15, b |-> 3, c |-> 2024, yd |-> 4] (a  *)
(*              str whose three numbers are joined by one separator; yd is *)
(*              the number of digits the year is written with)             *)
(*   int        [int |-> n]                                                *)
(*   None       [none |-> TRUE]                                            *)
(*   datetime   [day |-> d, month |-> m, year |-> y]                       *)
(*   dict       a function from keys to values                             *)
(*   a parsed document  [dict |-> f] or [list |-> <<f1, ...>>]             *)
(* An LLM completion is a text: [fence, syn, val], where fence says the    *)
(* text is wrapped in a markdown code fence, syn which grammars the        *)
(* unwrapped text belongs to ("json", "py" for a Python literal, "both",   *)
(* "none") and val the document it denotes (or [msg |-> ...] for prose).   *)
(***************************************************************************)
EXTENDS Integers, Sequences, FiniteSets, TLC

\* ------------------------------------------------------------- state

VARIABLES
    bpc,        \* where build is: "idle", "primary", "fields", "json", "final",
                \* "returned" or "raised"
    stage,      \* index into processing_steps
    result,     \* build's result: the report text, then the list of entries
    idx,        \* _gather_validated: position of the loop in report_data
    validated,  \* _gather_validated: the entries validated so far
    pending,    \* _validate: what the running except clause holds
    response,   \* what build returned, or the exception that escaped it
    ncalls,     \* model.predict calls made by this build
    call,       \* the latest model.predict call: its kind, and the field and
                \* the allowed values its prompt names
    reply,      \* the completion the latest model.predict call returned
    sentinelAt  \* ncalls when a completion read "cannot be processed", else 0

VARIABLES
    handled,              \* updates dispatched to a handler so far
    waiting,              \* prompt tasks suspended before build: query_text -> count
    building,             \* query_text of the prompt task running build
    awaiting_correction,  \* user_data["awaiting_correction"]
    corrections,          \* user_data["corrections"]
    corrected_entries,    \* user_data["corrected_entries"]
    sent,                 \* the messages the latest handler step sent
    keyboards,            \* confirmation keyboards on display
    escaped               \* the exception that escaped the latest handler step

VARIABLES
    zero_pads_year        \* the platform: strftime pads %Y to four digits

VARIABLES
    table,        \* the committed rows of the OperationInfo table, as inserted
    db_calls,     \* calls of the persistence layer made so far
    db_returned,  \* what the latest call returned
    db_raised,    \* the exception the latest call raised, or "none"
    commits       \* the number of rows each commit of the latest call wrote

VARIABLES
    runs,         \* runs of the dashboard script so far
    cache,        \* st.cache_data: the data load_data read, once read
    date_option,  \* the filter mode of the latest run
    start_date,   \* the script's global start_date, if bound
    end_date,     \* the script's global end_date, if bound
    df,           \* the script's df when the run ended
    output,       \* the sheet written to the export buffer
    download,     \* the download control, if the run offered it
    tabs,         \* the tabbed views the run rendered
    dash_raised   \* the exception that ended the run, or "none"

bvars ==
    <<bpc, stage, result, idx, validated, pending, response, ncalls, call,
      reply, sentinelAt>>

hvars ==
    <<handled, waiting, building, awaiting_correction, corrections,
      corrected_entries, sent, keyboards, escaped>>

VARIABLES
    starts,       \* starts of the bot process so far
    environ,      \* os.environ of the latest process after load_dotenv
    logged,       \* the names its error log line lists, if it logged one
    exit_status,  \* the status the process terminated with, if it did
    constructed,  \* the objects main constructed, in order
    running       \* telegram_bot.run() was called

dbvars == <<table, db_calls, db_returned, db_raised, commits>>

dashvars ==
    <<runs, cache, date_option, start_date, end_date, df, output, download,
      tabs, dash_raised>>

mainvars == <<starts, environ, logged, exit_status, constructed, running>>

\* What neither the builder nor the bot touches.
env == <<zero_pads_year, dbvars, dashvars, mainvars>>

vars == <<bvars, hvars, env>>

NoValue == [nothing |-> TRUE]

\* ------------------------------------------------------------- literals

ERROR_TEXT == [str |-> "Vash otchet ne mozhet byt obrabotan"]

CANNOT_PROCESS == "Otchet ne mozhet byt obrabotan."

Undefined == "Ne opredeleno"

PyNone == [none |-> TRUE]

Str(s) == [str |-> s]

PyInt(n) == [int |-> n]

IsStr(v) == "str" \in DOMAIN v \/ "sep" \in DOMAIN v

IsNone(v) == "none" \in DOMAIN v

\* The three taxonomies, loaded once at import.
allowed_entities ==
    [type     |-> {"Pahota", "Sev", Undefined},
     culture  |-> {"Pshenica", Undefined},
     division |-> {"AOR", Undefined}]

\* ------------------------------------------------------------- texts

Prose(m) == [fence |-> FALSE, syn |-> "none", val |-> [msg |-> m]]

\* Strips the code fence an LLM wraps its answer in.
clean_string(text) == [text EXCEPT !.fence = FALSE]

Raise(e) == [exc |-> e]

Return(v) == [exc |-> "none", val |-> v]

\* json.loads: the text must be bare JSON.
json_loads(text) ==
    IF ~text.fence /\ text.syn \in {"json", "both"}
    THEN Return(text.val)
    ELSE Raise("JSONDecodeError")

\* ast.literal_eval: the text must be a bare Python literal.
literal_eval(text) ==
    IF ~text.fence /\ text.syn \in {"py", "both"}
    THEN Return(text.val)
    ELSE Raise("SyntaxError")

\* ------------------------------------------------------------- dates

IsLeap(y) == (y % 4 = 0 /\ y % 100 # 0) \/ y % 400 = 0

DaysIn(m, y) ==
    IF m = 2 THEN (IF IsLeap(y) THEN 29 ELSE 28)
    ELSE IF m \in {4, 6, 9, 11} THEN 30 ELSE 31

IsCalendarDay(d, m, y) ==
    /\ y \in 1..9999
    /\ m \in 1..12
    /\ d \in 1..DaysIn(m, y)

\* datetime.strptime(s, "%d.%m.%Y"); %Y matches exactly four digits.
strptime_dmY(s) ==
    IF "sep" \in DOMAIN s /\ s.sep = "." /\ s.yd = 4 /\ IsCalendarDay(s.a, s.b, s.c)
    THEN Return([day |-> s.a, month |-> s.b, year |-> s.c])
    ELSE IF IsStr(s) THEN Raise("ValueError") ELSE Raise("TypeError")

\* datetime.strptime(s, "%Y-%m-%d")
strptime_Ymd(s) ==
    IF "sep" \in DOMAIN s /\ s.sep = "-" /\ s.yd = 4 /\ IsCalendarDay(s.c, s.b, s.a)
    THEN Return([day |-> s.c, month |-> s.b, year |-> s.a])
    ELSE IF IsStr(s) THEN Raise("ValueError") ELSE Raise("TypeError")

\* The decimal digits of a year.
Digits(y) == IF y >= 1000 THEN 4 ELSE IF y >= 100 THEN 3 ELSE IF y >= 10 THEN 2 ELSE 1

\* datetime.strftime("%d.%m.%Y"): the C library's strftime writes %Y; whether
\* a year below 1000 is padded to four digits depends on the platform.
strftime_dmY(dt) ==
    [sep |-> ".", a |-> dt.day, b |-> dt.month, c |-> dt.year,
     yd  |-> IF zero_pads_year THEN 4 ELSE Digits(dt.year)]

\* ------------------------------------------------------------- OperationEntry

\* The model's fields, in declaration order.
FieldNames ==
    <<"Data", "Operaciya", "Dannye", "Podrazdelenie", "Kultura",
      "Za_den_ga", "S_nachala_operacii_ga", "Val_za_den_c", "Val_s_nachala_c">>

\* Field name -> the key the field is read from (its alias, if it has one).
Alias(name) ==
    CASE name = "Za_den_ga" -> "Za den, ga"
      [] name = "S_nachala_operacii_ga" -> "S nachala operacii, ga"
      [] name = "Val_za_den_c" -> "Val za den, c"
      [] name = "Val_s_nachala_c" -> "Val s nachala, c"
      [] OTHER -> name

Range(seq) == {seq[i] : i \in DOMAIN seq}

\* dict.get(key), None when the key is absent
Get(data, key) == IF key \in DOMAIN data THEN data[key] ELSE PyNone

\* Python truthiness of a str-or-None value
Truthy(v) == ~IsNone(v) /\ v # Str("")

StrIn(v, S) == "str" \in DOMAIN v /\ v.str \in S

\* The "before" model validator: both formats are tried, the parsed date is
\* rendered and re-parsed, and data["Data"] becomes a datetime.
\* except ValueError: the second format is tried.
SecondFormat(first, date_str) ==
    IF first.exc = "ValueError" THEN strptime_Ymd(date_str) ELSE first

\* data["Data"] = datetime.strptime(parsed_date.strftime(...), ...)
StoreDate(data, again) ==
    IF again.exc # "none" THEN again
    ELSE Return([data EXCEPT !["Data"] = again.val])

Reformat(data, parsed_date) ==
    IF parsed_date.exc # "none" THEN parsed_date
    ELSE StoreDate(data, strptime_dmY(strftime_dmY(parsed_date.val)))

validate_date(data) ==
    IF "Data" \in DOMAIN data
    THEN Reformat(data, SecondFormat(strptime_dmY(data["Data"]), data["Data"]))
    ELSE Return(data)

validate_operation(v) ==
    IF ~StrIn(v, allowed_entities.type) THEN Raise("ValueError") ELSE Return(v)

\* A culture validator that accepts everything.
validate_culture_any(v) == Return(v)

validate_culture(v) ==
    IF Truthy(v) /\ ~StrIn(v, allowed_entities.culture)
    THEN Raise("ValueError") ELSE Return(v)

validate_division(v) ==
    IF Truthy(v) /\ ~StrIn(v, allowed_entities.division)
    THEN Raise("ValueError") ELSE Return(v)

\* The declared type of each field.
TypeOk(name, v) ==
    CASE name = "Data" -> "day" \in DOMAIN v
      [] name \in {"Operaciya", "Dannye"} -> IsStr(v)
      [] name \in {"Podrazdelenie", "Kultura"} -> IsNone(v) \/ IsStr(v)
      [] OTHER -> IsNone(v) \/ IsStr(v) \/ "int" \in DOMAIN v

\* The field validator of each field that has one.
FieldOk(name, v) ==
    CASE name = "Operaciya" -> validate_operation(v).exc = "none"
      [] name = "Kultura" -> validate_culture(v).exc = "none"
      [] name = "Podrazdelenie" -> validate_division(v).exc = "none"
      [] OTHER -> TRUE

\* OperationEntry(**kw): a ValueError of the "before" validator and every
\* field error become a ValidationError; any other exception escapes as it is.
ValidateFields(model) ==
    IF \A n \in DOMAIN model : TypeOk(n, model[n]) /\ FieldOk(n, model[n])
    THEN Return(model)
    ELSE Raise("ValidationError")

AfterBefore(before) ==
    IF before.exc = "ValueError" THEN Raise("ValidationError")
    ELSE IF before.exc # "none" THEN before
    ELSE ValidateFields([n \in Range(FieldNames) |-> Get(before.val, Alias(n))])

OperationEntry(kw) == AfterBefore(validate_date(kw))

\* model_dump(exclude_none=True) of one entry
model_dump(model) ==
    [n \in {k \in DOMAIN model : ~IsNone(model[k])} |-> model[n]]

\* OperationEntry(**x): x must be a mapping
Dumped(e) == IF e.exc = "none" THEN Return(model_dump(e.val)) ELSE e

NewEntry(x) ==
    IF "dict" \in DOMAIN x THEN Dumped(OperationEntry(x.dict))
    ELSE Raise("TypeError")

\* OperationList.model_validate(x).model_dump(exclude_none=True): x must be
\* a list, and every item an OperationEntry.
DumpedList(items) ==
    IF \E i \in DOMAIN items : items[i].exc \notin {"none", "ValidationError"}
    THEN Raise("TypeError")
    ELSE IF \E i \in DOMAIN items : items[i].exc # "none"
    THEN Raise("ValidationError")
    ELSE Return([i \in DOMAIN items |-> model_dump(items[i].val)])

OperationList(x) ==
    IF "list" \in DOMAIN x
    THEN DumpedList([i \in DOMAIN x.list |-> OperationEntry(x.list[i])])
    ELSE Raise("ValidationError")

\* The four fields build renames to their display labels, in the order of
\* the pops.
RenamedFields ==
    <<"Za_den_ga", "S_nachala_operacii_ga", "Val_za_den_c", "Val_s_nachala_c">>

\* ------------------------------------------------------------- completions

\* The longest list of entries an initial extraction returns.
MaxEntries == 2

Absent == [absent |-> TRUE]

\* A dict of the keys whose value is not Absent.
Present(f) == [k \in {x \in DOMAIN f : "absent" \notin DOMAIN f[x]} |-> f[k]]

MkEntry(d, o, r, v, c, n) ==
    Present(("Data" :> d) @@ ("Operaciya" :> o) @@ ("Dannye" :> r)
            @@ ("Podrazdelenie" :> v) @@ ("Kultura" :> c)) @@ n

Labels == {Alias(RenamedFields[j]) : j \in DOMAIN RenamedFields}

\* The area/yield figures: all four, or all but one.
Figures(missing) == [k \in Labels \ missing |-> PyInt(10)]

EntryDocs(D, O, R, V, C, N) ==
    {MkEntry(d, o, r, v, c, n) : d \in D, o \in O, r \in R, v \in V, c \in C, n \in N}

RECURSIVE ListsUpTo(_, _)
ListsUpTo(S, n) ==
    IF n = 0 THEN {<<>>}
    ELSE UNION {{l, Append(l, e)} : l \in ListsUpTo(S, n - 1), e \in S}

\* "15.03.2024", "2024-03-15", "2024/03/15" and "15.03.0999"
D_dmY == [sep |-> ".", a |-> 15, b |-> 3, c |-> 2024, yd |-> 4]

D_Ymd == [sep |-> "-", a |-> 2024, b |-> 3, c |-> 15, yd |-> 4]

D_slash == [sep |-> "/", a |-> 2024, b |-> 3, c |-> 15, yd |-> 4]

D_old == [sep |-> ".", a |-> 15, b |-> 3, c |-> 999, yd |-> 4]

\* The document has a null in it.
HasNull(doc) ==
    IF "dict" \in DOMAIN doc THEN \E k \in DOMAIN doc.dict : IsNone(doc.dict[k])
    ELSE \E i \in DOMAIN doc.list :
            \E k \in DOMAIN doc.list[i] : IsNone(doc.list[i][k])

\* A document written as JSON, bare and in a code fence: JSON with a null in
\* it is not a Python literal, other JSON is one too.
Written(docs) ==
    {[fence |-> f, syn |-> IF HasNull(d) THEN "json" ELSE "both", val |-> d] :
        f \in BOOLEAN, d \in docs}

\* A document written as a Python literal that is not JSON (single quotes,
\* None).
Literal(doc) == [fence |-> FALSE, syn |-> "py", val |-> doc]

Proses == {Prose(CANNOT_PROCESS), Prose("ne znayu")}

Fenced(texts) == {[t EXCEPT !.fence = TRUE] : t \in texts}

Excerpt == Str("vspahano 10 ga")

\* The documents an LLM answers each stage of a direct build with: entries
\* with valid, sentinel, empty, absent, null and out-of-taxonomy values, dates
\* in three formats, figures all present or one missing, and a document of
\* the wrong shape.
BuildDocs ==
    <<{[list |-> l] : l \in ListsUpTo(
            EntryDocs({D_dmY, D_slash}, {Str("Pahota"), Str("Kosmos")},
                      {Excerpt}, {Absent}, {Absent}, {Figures(Labels)}),
            MaxEntries)}
        \cup {[dict |-> MkEntry(D_dmY, Str("Pahota"), Excerpt, Absent, Absent,
                                Figures(Labels))]},
      {[dict |-> e] : e \in
            EntryDocs({D_dmY, PyNone}, {Str("Pahota")}, {Excerpt}, {Absent},
                      {Str("Pshenica"), Str("Repa")},
                      {Figures(Labels)})}
        \cup {[list |-> <<>>]},
      {[dict |-> e] : e \in
            EntryDocs({D_dmY}, {Str("Pahota")}, {Excerpt, Absent},
                      {Str("AOR"), Str("Mars")},
                      {Str("Pshenica")}, {Figures(Labels)})},
      {[dict |-> e] : e \in
            EntryDocs({D_dmY, D_Ymd, D_slash}, {Str("Pahota")}, {Excerpt},
                      {Str("AOR")}, {Str("Pshenica")},
                      {Figures({}), Figures({"Za den, ga"}), Figures({"Val za den, c"})})
            \cup EntryDocs({D_dmY}, {Str(Undefined), Str("Kosmos")}, {Excerpt},
                           {Absent, Str("Mars")}, {Str(Undefined), Str("Repa")},
                           {Figures({})})
            \cup EntryDocs({D_Ymd, D_old}, {Str("Pahota")}, {Excerpt},
                           {Str("")}, {PyNone}, {Figures({})})}>>

\* The documents that also come as Python literals.
BuildLiterals ==
    <<{[list |-> <<MkEntry(D_dmY, Str("Pahota"), Excerpt, Absent, Absent,
                           Figures(Labels))>>]},
      {[dict |-> MkEntry(D_dmY, Str("Pahota"), Excerpt, Absent, Str("Pshenica"),
                         Figures(Labels))]},
      {[dict |-> MkEntry(D_dmY, Str("Pahota"), Excerpt, Str("Mars"), Str("Pshenica"),
                         Figures(Labels))]},
      {[dict |-> MkEntry(D_Ymd, Str("Pahota"), Excerpt, Str("AOR"), Str("Pshenica"),
                         Figures(Labels))]}>>

\* The completions of a direct build, per stage.
BuildComps ==
    [s \in DOMAIN BuildDocs |->
        Written(BuildDocs[s]) \cup {Literal(d) : d \in BuildLiterals[s]}
            \cup Proses \cup Fenced(Proses)]

Raw1 == Str("vspahano 10 ga")

Raw2 == Str("poseyano 5 ga")

\* The entry of an initial extraction of a build run by the bot.
BotEntry == MkEntry(D_dmY, Str("Pahota"), Raw1, Absent, Absent, Figures(Labels))

\* The documents an LLM answers each stage of a build run by the bot with: a
\* report of one entry and one of two; in the culture stage also a document
\* of the wrong shape; in the last stage an entry without sentinel, one with
\* two, one with one and another excerpt, and one with a figure missing.
BotDocs ==
    <<{[list |-> <<BotEntry>>], [list |-> <<BotEntry, BotEntry>>]},
      {[dict |-> e] : e \in
            EntryDocs({D_dmY}, {Str("Pahota")}, {Raw1}, {Absent},
                      {Str("Pshenica"), Str("Repa")}, {Figures(Labels)})}
        \cup {[list |-> <<>>]},
      {[dict |-> MkEntry(D_dmY, Str("Pahota"), Raw1, Str("AOR"), Str("Pshenica"),
                         Figures(Labels))]},
      {[dict |-> MkEntry(D_dmY, Str("Pahota"), Raw1, Str("AOR"), Str("Pshenica"),
                         Figures({}))],
       [dict |-> MkEntry(D_dmY, Str(Undefined), Raw1, Str("AOR"), Str(Undefined),
                         Figures({}))],
       [dict |-> MkEntry(D_dmY, Str("Pahota"), Raw2, Str("AOR"), Str(Undefined),
                         Figures({}))],
       [dict |-> MkEntry(D_dmY, Str("Pahota"), Raw1, Str("AOR"), Str("Pshenica"),
                         Figures({"Za den, ga"}))]}>>

\* The completions of a build run by the bot, per stage.
BotComps ==
    [s \in DOMAIN BotDocs |->
        {[fence |-> FALSE, syn |-> "both", val |-> d] : d \in BotDocs[s]}
            \cup (IF s = 1 THEN Proses ELSE {})]

Reports == {Str("Pahota 10 ga")}

\* The query_text of a message without and with an attachment.
QueryTexts == {Str("otchet"), Str("[TABLICA] otchet")}

\* The completions model.predict may return, per stage.
Completions == IF building = NoValue THEN BuildComps ELSE BotComps

\* ------------------------------------------------------------- ReportBuilder

processing_steps ==
    <<[field |-> Str("Operaciya"), initial |-> TRUE],
      [field |-> Str("Kultura"), initial |-> FALSE],
      [field |-> Str("Podrazdelenie"), initial |-> FALSE],
      [field |-> PyNone, initial |-> FALSE]>>

\* The prompt of the field-correction call; `allowed` is bound only for the
\* three categorical fields.
_correct_fields(field, data) ==
    IF field \in {Str("Operaciya"), Str("Kultura"), Str("Podrazdelenie")}
    THEN Return([kind |-> "fields", field |-> field, report |-> data,
                 allowed |-> CASE field = Str("Operaciya") -> allowed_entities.type
                               [] field = Str("Kultura") -> allowed_entities.culture
                               [] OTHER -> allowed_entities.division])
    ELSE Raise("UnboundLocalError")

\* The prompt of the JSON-repair call.
_correct_json(data) == [kind |-> "json", field |-> PyNone, report |-> data,
                        allowed |-> {}]

\* _validate, the try block: the outcome is a value, or the exception raised
\* (with `parsed`, which the ValidationError clause reads).
Validated(r, parsed) ==
    IF r.exc = "ValidationError"
    THEN [exc |-> "ValidationError", parsed |-> parsed]
    ELSE r

Parsed(parsed, initial) ==
    IF parsed.exc # "none" THEN parsed
    ELSE IF initial THEN Validated(OperationList(parsed.val), parsed.val)
    ELSE Validated(NewEntry(parsed.val), parsed.val)

\* The try block without the sentinel check.
Cleaned_NoSentinel(cleaned, initial) == Parsed(json_loads(cleaned), initial)

Cleaned(cleaned, initial) ==
    IF cleaned = Prose(CANNOT_PROCESS) THEN Raise("ValueError")
    ELSE Parsed(json_loads(cleaned), initial)

_validate(report, initial) == Cleaned(clean_string(report), initial)

\* _validate, the ValidationError clause after the correction call.
EntryOf(lit) == IF lit.exc # "none" THEN lit ELSE NewEntry(lit.val)

ListOf(lit) == IF lit.exc # "none" THEN lit ELSE OperationList(lit.val)

ValidateCorrectedFields(correction, initial) ==
    IF initial THEN OperationList(correction)
    ELSE EntryOf(literal_eval(clean_string(correction)))

\* _validate, the JSONDecodeError clause after the repair call.
ValidateCorrectedJson(correction, initial) ==
    IF initial THEN ListOf(literal_eval(clean_string(correction)))
    ELSE NewEntry(correction)

\* build's "except Exception: return ERROR_TEXT"; the frames of the stage
\* are gone.
ReturnError ==
    /\ bpc' = "returned"
    /\ response' = ERROR_TEXT
    /\ pending' = NoValue
    /\ result' = NoValue
    /\ idx' = 1
    /\ validated' = <<>>
    /\ UNCHANGED stage

\* A per-entry stage that returns its last entry only.
Advance_last(val) ==
    /\ pending' = NoValue
    /\ response' = response
    /\ IF processing_steps[stage].initial
       THEN /\ result' = val
            /\ validated' = <<>>
            /\ idx' = 1
            /\ IF Len(val) = 0
               THEN stage' = Len(processing_steps) /\ bpc' = "final"
               ELSE stage' = stage + 1 /\ bpc' = "primary"
       ELSE IF idx < Len(result)
       THEN /\ validated' = Append(validated, val)
            /\ idx' = idx + 1
            /\ bpc' = "primary"
            /\ UNCHANGED <<stage, result>>
       ELSE /\ result' = <<val>>
            /\ validated' = <<>>
            /\ idx' = 1
            /\ IF stage < Len(processing_steps)
               THEN stage' = stage + 1 /\ bpc' = "primary"
               ELSE stage' = stage /\ bpc' = "final"

\* A stage's _validate returned val: _gather_validated appends and loops,
\* _process_stage returns, build goes to its next stage or to its final loop.
Advance(val) ==
    /\ pending' = NoValue
    /\ response' = response
    /\ IF processing_steps[stage].initial
       THEN /\ result' = val
            /\ validated' = <<>>
            /\ idx' = 1
            /\ IF Len(val) = 0
               THEN stage' = Len(processing_steps) /\ bpc' = "final"
               ELSE stage' = stage + 1 /\ bpc' = "primary"
       ELSE IF idx < Len(result)
       THEN /\ validated' = Append(validated, val)
            /\ idx' = idx + 1
            /\ bpc' = "primary"
            /\ UNCHANGED <<stage, result>>
       ELSE /\ result' = Append(validated, val)
            /\ validated' = <<>>
            /\ idx' = 1
            /\ IF stage < Len(processing_steps)
               THEN stage' = stage + 1 /\ bpc' = "primary"
               ELSE stage' = stage /\ bpc' = "final"

\* model.predict returned completion c to call k.
Predicted(k, c) ==
    /\ ncalls' = ncalls + 1
    /\ call' = [kind |-> k.kind, field |-> k.field, allowed |-> k.allowed]
    /\ reply' = c
    /\ sentinelAt' = IF sentinelAt = 0 /\ clean_string(c) = Prose(CANNOT_PROCESS)
                     THEN ncalls + 1 ELSE sentinelAt

\* The primary call of a stage (of one entry of it) and the try block.
\* The prompt of a stage's primary call.
_process_stage(report_data, field, initial) ==
    [kind |-> "primary", field |-> field, report |-> report_data, allowed |-> {}]

\* How _validate leaves its try block on outcome r of completion c.
TryOutcome(r, c) ==
    CASE r.exc = "none" -> Advance(r.val)
      [] r.exc = "ValidationError" ->
            /\ bpc' = "fields"
            /\ pending' = [parsed |-> r.parsed]
            /\ UNCHANGED <<stage, result, idx, validated, response>>
      [] r.exc = "JSONDecodeError" ->
            /\ bpc' = "json"
            /\ pending' = [report |-> c]
            /\ UNCHANGED <<stage, result, idx, validated, response>>
      [] OTHER -> ReturnError

\* An except clause whose exception leaves build.
HandlerOutcome_propagates(r) ==
    IF r.exc = "none" THEN Advance(r.val)
    ELSE /\ bpc' = "raised"
         /\ response' = Raise(r.exc)
         /\ pending' = NoValue
         /\ result' = NoValue
         /\ idx' = 1
         /\ validated' = <<>>
         /\ UNCHANGED stage

\* How _validate leaves an except clause on outcome r.
HandlerOutcome(r) == IF r.exc = "none" THEN Advance(r.val) ELSE ReturnError

PrimaryCall ==
    /\ bpc = "primary"
    /\ \E c \in Completions[stage] :
        /\ Predicted(_process_stage(
                IF processing_steps[stage].initial THEN result ELSE result[idx],
                processing_steps[stage].field, processing_steps[stage].initial), c)
        /\ TryOutcome(_validate(c, processing_steps[stage].initial), c)
    /\ UNCHANGED <<hvars, env>>

\* except ValidationError: the field-correction call and its re-validation.
CorrectWith(k) ==
    IF k.exc # "none"
    THEN ReturnError /\ UNCHANGED <<ncalls, call, reply, sentinelAt>>
    ELSE \E c \in Completions[stage] :
            /\ Predicted(k.val, c)
            /\ HandlerOutcome(
                    ValidateCorrectedFields(c, processing_steps[stage].initial))

FieldCorrection ==
    /\ bpc = "fields"
    /\ CorrectWith(_correct_fields(processing_steps[stage].field, pending.parsed))
    /\ UNCHANGED <<hvars, env>>

\* A repair whose output fails again is repaired again.
RepairOutcome(r, c) ==
    IF r.exc = "none" THEN Advance(r.val)
    ELSE /\ bpc' = "json"
         /\ pending' = [report |-> c]
         /\ UNCHANGED <<stage, result, idx, validated, response>>

JsonRepair_again ==
    /\ bpc = "json"
    /\ \E c \in Completions[stage] :
        /\ Predicted(_correct_json(
                IF processing_steps[stage].initial THEN pending.report
                ELSE clean_string(pending.report)), c)
        /\ RepairOutcome(
                ValidateCorrectedJson(c, processing_steps[stage].initial), c)
    /\ UNCHANGED <<hvars, env>>

\* except JSONDecodeError: the JSON-repair call and its re-validation.
JsonRepair ==
    /\ bpc = "json"
    /\ \E c \in Completions[stage] :
        /\ Predicted(_correct_json(
                IF processing_steps[stage].initial THEN pending.report
                ELSE clean_string(pending.report)), c)
        /\ HandlerOutcome(ValidateCorrectedJson(c, processing_steps[stage].initial))
    /\ UNCHANGED <<hvars, env>>

\* item[label] = item[name]: the value is copied and the old key stays.
PopInto_keeps(item, name) ==
    [k \in DOMAIN item \cup {Alias(name)} |->
        IF k = Alias(name) THEN item[name] ELSE item[k]]

\* item[label] = item.pop(name)
PopInto(item, name) ==
    [k \in (DOMAIN item \ {name}) \cup {Alias(name)} |->
        IF k = Alias(name) THEN item[name] ELSE item[k]]

RECURSIVE RenameFrom(_, _)
\* The pops from the j-th on; a missing key raises and leaves the item as the
\* earlier pops made it.
RenameFrom(item, j) ==
    IF j > Len(RenamedFields) THEN Return(item)
    ELSE IF RenamedFields[j] \notin DOMAIN item
    THEN [exc |-> "KeyError", val |-> item]
    ELSE RenameFrom(PopInto(item, RenamedFields[j]), j + 1)

\* The body of build's final loop for one item.
NormalizeItem(item) ==
    RenameFrom([item EXCEPT !["Data"] = strftime_dmY(item["Data"])], 1)

\* build's final loop: the items are normalised in place, in order, up to
\* the first one that raises.
\* The first item whose normalisation raises, or one past the last item.
FirstRaising(done) ==
    IF \A i \in DOMAIN done : done[i].exc = "none" THEN Len(done) + 1
    ELSE CHOOSE i \in DOMAIN done :
            /\ done[i].exc # "none"
            /\ \A j \in 1..(i - 1) : done[j].exc = "none"

LoopUpTo(done, stop) ==
    /\ result' = [i \in DOMAIN result |->
                    IF i <= stop THEN done[i].val ELSE result[i]]
    /\ IF stop > Len(done)
       THEN bpc' = "returned" /\ response' = [list |-> result']
       ELSE bpc' = "raised" /\ response' = Raise(done[stop].exc)

FinalLoop ==
    /\ bpc = "final"
    /\ LoopUpTo([i \in DOMAIN result |-> NormalizeItem(result[i])],
                FirstRaising([i \in DOMAIN result |-> NormalizeItem(result[i])]))
    /\ UNCHANGED <<stage, idx, validated, pending, ncalls, call, reply, sentinelAt>>
    /\ UNCHANGED <<hvars, env>>

\* build(report_data) is called.
StartBuild(report_data) ==
    /\ bpc' = "primary"
    /\ stage' = 1
    /\ result' = report_data
    /\ idx' = 1
    /\ validated' = <<>>
    /\ pending' = NoValue
    /\ response' = NoValue
    /\ ncalls' = 0
    /\ call' = NoValue
    /\ reply' = NoValue
    /\ sentinelAt' = 0

InitBuilder ==
    /\ bpc = "idle"
    /\ stage = 1
    /\ result = NoValue
    /\ idx = 1
    /\ validated = <<>>
    /\ pending = NoValue
    /\ response = NoValue
    /\ ncalls = 0
    /\ call = NoValue
    /\ reply = NoValue
    /\ sentinelAt = 0

\* ------------------------------------------------------------- AgroReportTelegramBot

\* The updates one user's chat may bring in a run.
MaxUpdates == 3

\* A message text is a sequence of tokens, " " the whitespace one.
Text(toks) == [toks |-> toks]

RECURSIVE lstrip(_)
lstrip(toks) ==
    IF toks # <<>> /\ Head(toks) = " " THEN lstrip(Tail(toks)) ELSE toks

RECURSIVE rstrip(_)
rstrip(toks) ==
    IF toks # <<>> /\ toks[Len(toks)] = " "
    THEN rstrip(SubSeq(toks, 1, Len(toks) - 1)) ELSE toks

RECURSIVE Join(_)
Join(toks) == IF toks = <<>> THEN "" ELSE Head(toks) \o Join(Tail(toks))

\* A strip that leaves the text as it is.
strip_nothing(text) == Str(Join(text.toks))

\* user_input.strip()
strip(text) == Str(Join(rstrip(lstrip(text.toks))))

\* An incoming update: an edited message or a new one, its sender on the
\* allow-list or not, its text (None for a message without text) and its
\* attachment ("good" is one manage_attachment reads, "bad" one it raises on).
Update(e, a, t, f) == [edited |-> e, allowed |-> a, text |-> t, file |-> f]

Updates ==
    {Update(FALSE, TRUE, Text(<<"Pshenica">>), "none"),
     Update(FALSE, TRUE, Text(<<" ", "Pshenica", " ">>), "none"),
     Update(FALSE, TRUE, Text(<<"chto-to">>), "none"),
     Update(FALSE, TRUE, PyNone, "good"),
     Update(FALSE, TRUE, PyNone, "bad"),
     Update(FALSE, FALSE, Text(<<"Pshenica">>), "none"),
     Update(FALSE, FALSE, PyNone, "good"),
     Update(TRUE, TRUE, Text(<<"Pshenica">>), "none")}

is_allowed(update) == update.allowed

\* A gate that lets every sender through.
check_allowed_anyone(update) == TRUE

\* check_allowed: the refusal text goes out when it returns False.
check_allowed(update) == is_allowed(update)

\* `not user_input`
NoInput(text) == IsNone(text) \/ text.toks = <<>>

\* The keys of a returned entry in dict order: the dumped fields in
\* declaration order, the renamed ones re-inserted last in the same order.
KeyOrder == [i \in DOMAIN FieldNames |-> Alias(FieldNames[i])]

items(entry) == SelectSeq(KeyOrder, LAMBDA k : k \in DOMAIN entry)

\* for key, value in entry.items(): if value == sentinel: append
SentinelKeys(entry) == SelectSeq(items(entry), LAMBDA k : entry[k] = Str(Undefined))

EntryQueue(entry_idx, entry) ==
    [j \in DOMAIN SentinelKeys(entry) |-> <<entry_idx, SentinelKeys(entry)[j]>>]

RECURSIVE QueueFrom(_, _)
QueueFrom(list, i) ==
    IF i > Len(list) THEN <<>>
    ELSE EntryQueue(i - 1, list[i]) \o QueueFrom(list, i + 1)

\* A queue of the first entry's fields only.
first_entry_queue(list) == EntryQueue(0, list[1])

\* for entry_idx, entry in enumerate(response): ...
corrections_queue(list) == QueueFrom(list, 1)

\* entry.pop("Dannye", None), for every entry
PopData(entries) ==
    [i \in DOMAIN entries |->
        [k \in DOMAIN entries[i] \ {"Dannye"} |-> entries[i][k]]]

\* The messages the bot sends.
CorrectionPrompt(entry_number, excerpt, key) ==
    [kind |-> "prompt", entry_number |-> entry_number, excerpt |-> excerpt,
     field |-> key]

\* The formatted report with the two-button confirmation keyboard.
Confirmation(entries) == [kind |-> "report", entries |-> entries, reply_markup |-> TRUE]

Notice(k) == [kind |-> k]

\* The hook for an exception that escapes a handler: it is logged.
error_handler(error) == escaped' = error

\* A handler step that touches nothing of the session.
SessionUnchanged ==
    UNCHANGED <<awaiting_correction, corrections, corrected_entries, keyboards>>

\* prompt, awaiting correction: the last queued field was written.
CorrectionsDone(entries, queue) ==
    /\ awaiting_correction' = FALSE
    /\ corrections' = [entries |-> PopData(entries), queue |-> queue,
                       current_index |-> Len(queue)]
    /\ corrected_entries' = [list |-> PopData(entries)]
    /\ sent' = <<Confirmation(PopData(entries))>>
    /\ keyboards' = keyboards + 1
    /\ escaped' = "none"

\* prompt, awaiting correction: the prompt for the next queued field, which
\* reads entries[entry_number] with entry_number = next_entry_idx + 1.
NextPrompt(entries, queue, current_index) ==
    /\ corrections' = [entries |-> entries, queue |-> queue,
                       current_index |-> current_index]
    /\ UNCHANGED <<awaiting_correction, corrected_entries, keyboards>>
    /\ IF queue[current_index + 1][1] + 2 > Len(entries)
       THEN sent' = <<>> /\ error_handler("IndexError")
       ELSE IF "Dannye" \notin DOMAIN entries[queue[current_index + 1][1] + 2]
       THEN sent' = <<>> /\ error_handler("KeyError")
       ELSE /\ sent' = <<CorrectionPrompt(
                            queue[current_index + 1][1] + 1,
                            entries[queue[current_index + 1][1] + 2]["Dannye"],
                            queue[current_index + 1][2])>>
            /\ escaped' = "none"

\* prompt, awaiting correction: entries[entry_idx][key] = user_input and the
\* cursor moves on.
StoreInput(entries, queue, current_index) ==
    IF current_index < Len(queue)
    THEN NextPrompt(entries, queue, current_index)
    ELSE CorrectionsDone(entries, queue)

\* A write that leaves the cursor where it was.
WriteInput_again(user_input, correction_data) ==
    StoreInput(
        [correction_data.entries EXCEPT
            ![correction_data.queue[correction_data.current_index + 1][1] + 1]
             [correction_data.queue[correction_data.current_index + 1][2]] =
                user_input],
        correction_data.queue,
        correction_data.current_index)

WriteInput(user_input, correction_data) ==
    StoreInput(
        [correction_data.entries EXCEPT
            ![correction_data.queue[correction_data.current_index + 1][1] + 1]
             [correction_data.queue[correction_data.current_index + 1][2]] =
                user_input],
        correction_data.queue,
        correction_data.current_index + 1)

\* A branch that passes over a message without text in silence.
Correction_silent(update) ==
    IF NoInput(update.text)
    THEN /\ sent' = <<>>
         /\ escaped' = "none"
         /\ SessionUnchanged
    ELSE IF corrections = NoValue
            \/ corrections.current_index >= Len(corrections.queue)
    THEN /\ awaiting_correction' = FALSE
         /\ sent' = <<>>
         /\ escaped' = "none"
         /\ UNCHANGED <<corrections, corrected_entries, keyboards>>
    ELSE WriteInput(strip(update.text), corrections)

\* prompt, the awaiting-correction branch.
Correction(update) ==
    IF NoInput(update.text)
    THEN /\ sent' = <<Notice("enter_value")>>
         /\ escaped' = "none"
         /\ SessionUnchanged
    ELSE IF corrections = NoValue
            \/ corrections.current_index >= Len(corrections.queue)
    THEN /\ awaiting_correction' = FALSE
         /\ sent' = <<>>
         /\ escaped' = "none"
         /\ UNCHANGED <<corrections, corrected_entries, keyboards>>
    ELSE WriteInput(strip(update.text), corrections)

\* prompt, a new report: the attachment is read, and the task waits for the
\* chat platform before it builds.
Incoming(update) ==
    /\ SessionUnchanged
    /\ escaped' = "none"
    /\ IF update.file = "none"
       THEN /\ sent' = <<>>
            /\ waiting' = [waiting EXCEPT ![Str("otchet")] = @ + 1]
       ELSE IF update.file = "bad"
       THEN /\ sent' = <<Notice("file_processing"), Notice("file_failed")>>
            /\ UNCHANGED waiting
       ELSE /\ sent' = <<Notice("file_processing")>>
            /\ waiting' = [waiting EXCEPT ![Str("[TABLICA] otchet")] = @ + 1]

\* prompt, from its entry to its first wait on the chat platform after the
\* session state is read.
prompt(update) ==
    /\ bpc = "idle"
    /\ handled < MaxUpdates
    /\ handled' = handled + 1
    /\ UNCHANGED <<bvars, building, env>>
    /\ IF update.edited
       THEN SessionUnchanged /\ sent' = <<>> /\ escaped' = "none"
                /\ UNCHANGED waiting
       ELSE IF ~check_allowed(update)
       THEN SessionUnchanged /\ sent' = <<Notice("disallowed")>>
                /\ escaped' = "none" /\ UNCHANGED waiting
       ELSE IF awaiting_correction
       THEN Correction(update) /\ UNCHANGED waiting
       ELSE Incoming(update)

Dispatch == \E update \in Updates : prompt(update)

\* prompt, a waiting task goes on: "building the report" is sent and
\* builder.build(query_text) is called.
PromptBuild ==
    /\ bpc = "idle"
    /\ \E query_text \in DOMAIN waiting :
        /\ waiting[query_text] > 0
        /\ waiting' = [waiting EXCEPT ![query_text] = @ - 1]
        /\ building' = query_text
        /\ StartBuild(query_text)
    /\ sent' = <<Notice("building")>>
    /\ escaped' = "none"
    /\ SessionUnchanged
    /\ UNCHANGED <<handled, env>>

\* The builder is at rest again.
BuilderIdle ==
    /\ bpc' = "idle"
    /\ stage' = 1
    /\ result' = NoValue
    /\ idx' = 1
    /\ validated' = <<>>
    /\ pending' = NoValue
    /\ response' = NoValue
    /\ ncalls' = 0
    /\ call' = NoValue
    /\ reply' = NoValue
    /\ sentinelAt' = 0

\* A report that is held back while a correction dialogue is under way.
Report_unless_awaiting(list, queue) ==
    IF awaiting_correction
    THEN /\ sent' = <<>>
         /\ SessionUnchanged
    ELSE IF queue # <<>>
    THEN /\ corrections' = [entries |-> list, queue |-> queue, current_index |-> 0]
         /\ awaiting_correction' = TRUE
         /\ sent' = <<CorrectionPrompt(queue[1][1] + 1,
                                       list[queue[1][1] + 1]["Dannye"],
                                       queue[1][2])>>
         /\ UNCHANGED <<corrected_entries, keyboards>>
    ELSE /\ sent' = <<Confirmation(PopData(list))>>
         /\ keyboards' = keyboards + 1
         /\ UNCHANGED <<awaiting_correction, corrections, corrected_entries>>

\* prompt, after build returned a list.
Report(list, queue) ==
    IF queue # <<>>
    THEN /\ corrections' = [entries |-> list, queue |-> queue, current_index |-> 0]
         /\ awaiting_correction' = TRUE
         /\ sent' = <<CorrectionPrompt(queue[1][1] + 1,
                                       list[queue[1][1] + 1]["Dannye"],
                                       queue[1][2])>>
         /\ UNCHANGED <<corrected_entries, keyboards>>
    ELSE /\ sent' = <<Confirmation(PopData(list))>>
         /\ keyboards' = keyboards + 1
         /\ UNCHANGED <<awaiting_correction, corrections, corrected_entries>>

\* prompt, from the return of build to the end of the handler.
PromptReport ==
    /\ building # NoValue
    /\ bpc \in {"returned", "raised"}
    /\ IF bpc = "raised"
       THEN /\ sent' = <<>>
            /\ error_handler(response.exc)
            /\ SessionUnchanged
       ELSE IF response = ERROR_TEXT
       THEN /\ sent' = <<[kind |-> "text", text |-> ERROR_TEXT]>>
            /\ escaped' = "none"
            /\ SessionUnchanged
       ELSE /\ Report(response.list, corrections_queue(response.list))
            /\ escaped' = "none"
    /\ BuilderIdle
    /\ building' = NoValue
    /\ UNCHANGED <<handled, waiting, env>>

\* button_callback: the notice for the button pressed, corrected_entries is
\* dropped and the keyboard removed.
button_callback(data) ==
    /\ bpc = "idle"
    /\ keyboards > 0
    /\ sent' = <<Notice(IF data = "final_yes" THEN "saved" ELSE "not_saved")>>
    /\ corrected_entries' = NoValue
    /\ keyboards' = keyboards - 1
    /\ escaped' = "none"
    /\ UNCHANGED <<bvars, handled, waiting, building, awaiting_correction,
                   corrections, env>>

Press == \E data \in {"final_yes", "final_no"} : button_callback(data)

\* ------------------------------------------------------------- db.interaction

\* The calls of the persistence layer in a run.
MaxDbCalls == 2

\* The columns of the OperationInfo table; a row is the tuple of its values
\* in this order.
Columns ==
    <<"id", "date", "unit", "operation", "cultura", "GA_per_day",
      "GA_per_operation", "val_per_day", "val_per_operation">>

Column(name) == CHOOSE j \in DOMAIN Columns : Columns[j] = name

\* OperationInfo(**record): a keyword that is no column raises, a column
\* without keyword is None.
OperationInfo(record) ==
    IF DOMAIN record \subseteq Range(Columns)
    THEN Return([j \in DOMAIN Columns |->
                    IF Columns[j] \in DOMAIN record THEN record[Columns[j]]
                    ELSE PyNone])
    ELSE Raise("TypeError")

\* model.to_dict(): the row as a mapping from column name to value.
to_dict(row) == [name \in Range(Columns) |-> row[Column(name)]]

\* A column that holds numbers and None becomes a float column.
Mixed(records, name) ==
    /\ \E i \in DOMAIN records : "int" \in DOMAIN records[i][name]
    /\ \E i \in DOMAIN records : records[i][name] = PyNone

\* A value of a float column: None is NaN, an int the float of that value.
AsFloat(v) ==
    IF v = PyNone THEN [nan |-> TRUE]
    ELSE IF "int" \in DOMAIN v THEN [float |-> v.int]
    ELSE v

\* pd.DataFrame(records): one row per mapping, one column per key.
DataFrame(records) ==
    [columns |-> IF records = <<>> THEN {} ELSE Range(Columns),
     rows |-> [i \in DOMAIN records |->
                [name \in Range(Columns) |->
                    IF Mixed(records, name) THEN AsFloat(records[i][name])
                    ELSE records[i][name]]]]

\* The ids of the rows.
IdsOf(rows) == {rows[i][Column("id")] : i \in DOMAIN rows}

\* The rows as the database stores them, one after the other: a row
\* without id gets the id after the largest one so far.
RECURSIVE Stored(_, _)
Stored(objects, max_id) ==
    IF objects = <<>> THEN <<>>
    ELSE IF Head(objects)[Column("id")] = PyNone
    THEN <<[Head(objects) EXCEPT ![Column("id")] = PyInt(max_id + 1)]>>
            \o Stored(Tail(objects), max_id + 1)
    ELSE <<Head(objects)>>
            \o Stored(Tail(objects),
                      IF Head(objects)[Column("id")].int > max_id
                      THEN Head(objects)[Column("id")].int ELSE max_id)

\* The largest id of the table.
RECURSIVE MaxId(_)
MaxId(rows) ==
    IF rows = <<>> THEN 0
    ELSE IF rows[Len(rows)][Column("id")].int > MaxId(SubSeq(rows, 1, Len(rows) - 1))
    THEN rows[Len(rows)][Column("id")].int
    ELSE MaxId(SubSeq(rows, 1, Len(rows) - 1))

\* The primary key holds: the ids of new rows differ from each other and
\* from those of the table.
KeysFree(rows, new) ==
    /\ IdsOf(rows) \cap IdsOf(new) = {}
    /\ \A i, j \in DOMAIN new :
            new[i][Column("id")] = new[j][Column("id")] => i = j

\* A comprehension that leaves out the records it cannot construct.
Constructed_skipping(records) ==
    Return([j \in DOMAIN SelectSeq(records, LAMBDA r : OperationInfo(r).exc = "none")
                |-> OperationInfo(
                        SelectSeq(records,
                                  LAMBDA r : OperationInfo(r).exc = "none")[j]).val])

\* objects = [OperationInfo(**record) for record in records]
Constructed(records) ==
    IF \E j \in DOMAIN records : OperationInfo(records[j]).exc # "none"
    THEN Raise("TypeError")
    ELSE Return([j \in DOMAIN records |-> OperationInfo(records[j]).val])

\* session_scope left by an exception: what is pending is rolled back.
RolledBack(e) ==
    /\ table' = table
    /\ commits' = <<>>
    /\ db_returned' = NoValue
    /\ db_raised' = e

\* session.bulk_save_objects(objects); session.commit()
Saved(new) ==
    IF KeysFree(table, new)
    THEN /\ table' = table \o new
         /\ commits' = <<Len(new)>>
         /\ db_returned' = PyNone
         /\ db_raised' = "none"
    ELSE RolledBack("IntegrityError")

DbCall ==
    /\ db_calls < MaxDbCalls
    /\ db_calls' = db_calls + 1
    /\ UNCHANGED <<bvars, hvars, zero_pads_year, dashvars, mainvars>>

insert_objects(records) ==
    /\ DbCall
    /\ IF Constructed(records).exc # "none"
       THEN RolledBack(Constructed(records).exc)
       ELSE Saved(Stored(Constructed(records).val, MaxId(table)))

\* The eight fields update_record_by_id knows.
KnownFields == Range(Columns) \ {"id"}

\* Every known field is assigned, None where new_data has no value for it.
Assigned_every(record, new_data) ==
    [j \in DOMAIN Columns |->
        IF Columns[j] \notin KnownFields THEN record[j]
        ELSE IF Columns[j] \in DOMAIN new_data THEN new_data[Columns[j]]
        ELSE PyNone]

\* if 'date' in new_data: record.date = new_data['date'], and so on for the
\* eight fields.
Assigned(record, new_data) ==
    [j \in DOMAIN Columns |->
        IF Columns[j] \in KnownFields \cap DOMAIN new_data
        THEN new_data[Columns[j]]
        ELSE record[j]]

\* session.query(OperationInfo).filter(OperationInfo.id == record_id).first()
first(rows, record_id) ==
    IF \E i \in DOMAIN rows : rows[i][Column("id")] = record_id
    THEN CHOOSE i \in DOMAIN rows : rows[i][Column("id")] = record_id
    ELSE 0

update_record_by_id(record_id, new_data) ==
    /\ DbCall
    /\ db_raised' = "none"
    /\ IF first(table, record_id) # 0
       THEN /\ table' = [table EXCEPT ![first(table, record_id)] =
                            Assigned(@, new_data)]
            /\ commits' = <<1>>
            /\ db_returned' = [row |-> table'[first(table, record_id)]]
       ELSE /\ table' = table
            /\ commits' = <<>>
            /\ db_returned' = PyNone

get_all_models_as_dataframe ==
    /\ DbCall
    /\ table' = table
    /\ commits' = <<>>
    /\ db_raised' = "none"
    /\ db_returned' = DataFrame([i \in DOMAIN table |-> to_dict(table[i])])

\* The record mappings a caller inserts: all fields, some fields, a field
\* the table does not have, and an id of the caller's choice.
FullRecord ==
    [name \in KnownFields |->
        IF name \in {"GA_per_day", "GA_per_operation", "val_per_day",
                     "val_per_operation"}
        THEN PyInt(10) ELSE Str("a")]

Records ==
    {FullRecord,
     ("date" :> Str("a")) @@ ("operation" :> Str("b")),
     ("date" :> Str("a")) @@ ("culture" :> Str("a")),
     ("id" :> PyInt(2)) @@ ("date" :> Str("b"))}

Batches == ListsUpTo(Records, 2)

\* The identifiers a caller updates by.
RecordIds == {PyInt(1), PyInt(2), PyInt(7)}

\* The field maps of an update: one field, two fields one of them set to
\* None, no field, and fields update_record_by_id does not know.
NewDatas ==
    {("date" :> Str("c")),
     ("unit" :> Str("c")) @@ ("cultura" :> PyNone),
     <<>>,
     ("id" :> PyInt(7)) @@ ("comment" :> Str("c")) @@ ("val_per_day" :> PyInt(20))}

InsertCall == \E records \in Batches : insert_objects(records)

UpdateCall == \E record_id \in RecordIds, new_data \in NewDatas :
                update_record_by_id(record_id, new_data)

InitDb ==
    /\ table = <<>>
    /\ db_calls = 0
    /\ db_returned = NoValue
    /\ db_raised = "none"
    /\ commits = <<>>

NextDb ==
    \/ InsertCall
    \/ UpdateCall
    \/ get_all_models_as_dataframe

\* ------------------------------------------------------------- app.dashboard

\* The runs of the dashboard script in a session.
MaxRuns == 2

\* Calendar days, numbered.
Days == 1..3

\* The rows of the spreadsheet: a day and a culture.
SheetRows == {[Data |-> d, Kultura |-> "Pshenica"] : d \in Days}

\* The spreadsheets load_data may find: one row or two.
Sheets == ListsUpTo(SheetRows, 2) \ {<<>>}

\* The three modes of the sidebar radio.
DateOptions == {"Vsya istoriya", "Vybrat period", "Segodnya"}

\* A name of the script that no statement has bound.
Unbound == [unbound |-> TRUE]

\* load_data under st.cache_data: the file is read on the first run only.
load_data(sheet) == IF cache = NoValue THEN [rows |-> sheet] ELSE cache

\* df[(df.Data >= start) & (df.Data <= end)]
Between(rows, start, end) ==
    SelectSeq(rows, LAMBDA r : r.Data >= start /\ r.Data <= end)

\* The filter of the chosen mode.
Filtered(rows, option, start, end, today) ==
    IF option = "Vybrat period" THEN Between(rows, start, end)
    ELSE IF option = "Segodnya" THEN SelectSeq(rows, LAMBDA r : r.Data = today)
    ELSE rows

\* df.Data.dt.strftime("%d.%m.%Y"): the day as text.
AsText(rows) ==
    [i \in DOMAIN rows |-> [rows[i] EXCEPT !.Data = [dmY |-> rows[i].Data]]]

\* f"otchet_{start_date}_{end_date}.xlsx": reading an unbound name raises.
file_name(start, end) ==
    IF start = Unbound \/ end = Unbound THEN Raise("NameError")
    ELSE Return([start |-> start, end |-> end])

\* The script from the download button on.
Offered(name) ==
    IF name.exc # "none"
    THEN /\ download' = NoValue
         /\ tabs' = {}
         /\ dash_raised' = name.exc
    ELSE /\ download' = [file_name |-> name.val, data |-> output']
         /\ tabs' = {"Po kulture", "Po operacii", "Po podrazdeleniyam"}
         /\ dash_raised' = "none"

\* One run of the script, top to bottom.
dashboard(sheet, option, start, end, today) ==
    /\ runs < MaxRuns
    /\ runs' = runs + 1
    /\ cache' = load_data(sheet)
    /\ date_option' = option
    /\ start_date' = IF option = "Vybrat period" THEN [day |-> start] ELSE Unbound
    /\ end_date' = IF option = "Vybrat period" THEN [day |-> end] ELSE Unbound
    /\ df' = AsText(Filtered(cache'.rows, option, start, end, today))
    /\ output' = [sheet_name |-> "Otchet", rows |-> df']
    /\ Offered(file_name(start_date', end_date'))
    /\ UNCHANGED <<bvars, hvars, zero_pads_year, dbvars, mainvars>>

RunDashboard ==
    \E sheet \in Sheets, option \in DateOptions, start \in Days, end \in Days,
       today \in Days :
        dashboard(sheet, option, start, end, today)

InitDash ==
    /\ runs = 0
    /\ cache = NoValue
    /\ date_option = NoValue
    /\ start_date = Unbound
    /\ end_date = Unbound
    /\ df = NoValue
    /\ output = NoValue
    /\ download = NoValue
    /\ tabs = {}
    /\ dash_raised = "none"

NextDash == RunDashboard

\* ------------------------------------------------------------- bot.main

\* The starts of the bot process in a run.
MaxStarts == 2

required_values ==
    <<"TELEGRAM_BOT_TOKEN", "ALLOWED_TELEGRAM_USER_IDS", "ADMIN_USER_IDS",
      "MISTRAL_API_KEY", "GROUP_CHAT_ID">>

\* An environment: each required name has a value or is absent.
Environments(values) == [Range(required_values) -> values \cup {Absent}]

\* What the process inherits: a name is set or not.
ProcessEnvs == Environments({Str("p")})

\* What the .env file holds (nothing, if there is no file): a name is set or
\* not named, and in a file that sets all five one may be set to the empty
\* text.
DotenvFiles ==
    Environments({Str("f")})
        \cup {[name \in Range(required_values) |->
                    IF name = empty THEN Str("") ELSE Str("f")] :
                empty \in Range(required_values)}

\* load_dotenv(find_dotenv()): a value of the file is set only where the
\* process has none.
load_dotenv(process, file) ==
    [name \in DOMAIN process |->
        IF process[name] # Absent THEN process[name] ELSE file[name]]

\* os.environ.get(value)
environ_get(e, value) == IF e[value] = Absent THEN PyNone ELSE e[value]

\* The names whose value is missing or empty.
missing_values_falsy(e) ==
    SelectSeq(required_values, LAMBDA value : ~Truthy(environ_get(e, value)))

\* [value for value in required_values if os.environ.get(value) is None]
missing_values(e) ==
    SelectSeq(required_values, LAMBDA value : IsNone(environ_get(e, value)))

\* The system prompt load_prompt renders.
assistant_prompt == Str("system prompt")

\* main's config.
config(e) ==
    [token |-> e["TELEGRAM_BOT_TOKEN"],
     mistral_api_key |-> e["MISTRAL_API_KEY"],
     admin_user_ids |-> e["ADMIN_USER_IDS"],
     allowed_user_ids |-> e["ALLOWED_TELEGRAM_USER_IDS"],
     assistant_prompt |-> assistant_prompt,
     group_chat_id |-> e["GROUP_CHAT_ID"]]

\* main from the check of the required values on: the error line and
\* exit(1), or the builder, the bot around it and run().
Startup(e, missing) ==
    IF Len(missing) > 0
    THEN /\ logged' = [names |-> missing]
         /\ exit_status' = PyInt(1)
         /\ constructed' = <<>>
         /\ running' = FALSE
    ELSE /\ logged' = NoValue
         /\ exit_status' = NoValue
         /\ constructed' = <<[class |-> "ReportBuilder", config |-> config(e)],
                             [class |-> "AgroReportTelegramBot",
                              config |-> config(e)]>>
         /\ running' = TRUE

\* One start of the process: main().
main(process, file) ==
    /\ starts < MaxStarts
    /\ starts' = starts + 1
    /\ environ' = load_dotenv(process, file)
    /\ Startup(environ', missing_values(environ'))
    /\ UNCHANGED <<bvars, hvars, zero_pads_year, dbvars, dashvars>>

Start == \E process \in ProcessEnvs, file \in DotenvFiles : main(process, file)

InitMain ==
    /\ starts = 0
    /\ environ = NoValue
    /\ logged = NoValue
    /\ exit_status = NoValue
    /\ constructed = <<>>
    /\ running = FALSE

NextMain == Start

\* ------------------------------------------------------------- build alone

InitBot ==
    /\ handled = 0
    /\ waiting = [q \in QueryTexts |-> 0]
    /\ building = NoValue
    /\ awaiting_correction = FALSE
    /\ corrections = NoValue
    /\ corrected_entries = NoValue
    /\ sent = <<>>
    /\ keyboards = 0
    /\ escaped = "none"

Init == InitBuilder /\ InitBot /\ zero_pads_year \in BOOLEAN /\ InitDb
            /\ InitDash /\ InitMain

CallBuild ==
    /\ building = NoValue
    /\ bpc \in {"idle", "returned", "raised"}
    /\ \E t \in Reports : StartBuild(t)
    /\ UNCHANGED <<hvars, env>>

NextBuild ==
    \/ CallBuild
    \/ PrimaryCall
    \/ FieldCorrection
    \/ JsonRepair
    \/ FinalLoop

SpecBuild == Init /\ [][NextBuild]_vars

\* A build that was called goes on: model.predict returns and the
\* interpreter takes the next statement.
BuildStep == PrimaryCall \/ FieldCorrection \/ JsonRepair \/ FinalLoop

SpecBuildFair == SpecBuild /\ WF_vars(BuildStep)

\* ------------------------------------------------------------- the bot

Next ==
    \/ Dispatch
    \/ PromptBuild
    \/ PrimaryCall
    \/ FieldCorrection
    \/ JsonRepair
    \/ FinalLoop
    \/ PromptReport
    \/ Press

Spec == Init /\ [][Next]_vars

\* ------------------------------------------------------------- the persistence layer

SpecDb == Init /\ [][NextDb]_vars

\* ------------------------------------------------------------- the dashboard

SpecDash == Init /\ [][NextDash]_vars

\* ------------------------------------------------------------- the process start

SpecMain == Init /\ [][NextMain]_vars

\* ------------------------------------------------------------- properties of build

\* build has returned a list.
ReturnedList == bpc = "returned" /\ "list" \in DOMAIN response

\* build has returned ERROR_TEXT.
ReturnedError == bpc = "returned" /\ response = ERROR_TEXT

\* Completion c is well-formed and passes validation: the try block of
\* _validate accepts it.
ValidAnswer(c, initial) == _validate(c, initial).exc = "none"

\* C1: build returns a list of entries or ERROR_TEXT; no exception escapes
\* it, also when a validated entry lacks an optional area/yield field.
C1_BuildReturnsListOrErrorText ==
    bpc \in {"returned", "raised"} => ReturnedList \/ ReturnedError

\* C2: in every stage, when the first completion fails JSON parsing and the
\* completion of the JSON-repair call is well-formed and valid, build does
\* not return ERROR_TEXT because of that stage.
C2_RepairedJsonAccepted ==
    (ReturnedError /\ call # NoValue /\ call.kind = "json")
        => ~ValidAnswer(reply, processing_steps[stage].initial)

\* C3: in every stage, a completion that fails field validation is followed
\* by a field-correction call, and a valid completion of that call is what
\* the stage returns: build does not return ERROR_TEXT after a validation
\* failure without that call, nor after a valid completion of it.
C3_FieldCorrectionApplied ==
    /\ (ReturnedError /\ call # NoValue /\ call.kind = "primary")
            => _validate(reply, processing_steps[stage].initial).exc
                    # "ValidationError"
    /\ (ReturnedError /\ call # NoValue /\ call.kind = "fields")
            => ~ValidAnswer(reply, processing_steps[stage].initial)

\* C4: once a completion reads "report cannot be processed", build has
\* returned ERROR_TEXT and that completion's call is the last predict call.
C4_SentinelStopsBuild ==
    sentinelAt # 0 => ReturnedError /\ ncalls = sentinelAt

\* The sentinel came as the completion of a later call than the first.
C4_Witness == sentinelAt > 1 /\ ReturnedError /\ stage > 1

\* Operation, culture and division of an entry are taxonomy values, culture
\* and division possibly absent or empty.
InTaxonomy(e) ==
    /\ StrIn(Get(e, "Operaciya"), allowed_entities.type)
    /\ \/ ~Truthy(Get(e, "Kultura"))
       \/ StrIn(Get(e, "Kultura"), allowed_entities.culture)
    /\ \/ ~Truthy(Get(e, "Podrazdelenie"))
       \/ StrIn(Get(e, "Podrazdelenie"), allowed_entities.division)

\* C5: every entry build returns, and every entry a stage has validated on
\* the way, has its operation in the taxonomy and its culture and division
\* absent, empty or in their taxonomies.
C5_ResultInTaxonomy ==
    /\ ReturnedList => \A i \in DOMAIN response.list : InTaxonomy(response.list[i])
    /\ \A i \in DOMAIN validated : InTaxonomy(validated[i])
    /\ (stage > 1 /\ bpc \in {"primary", "fields", "json", "final", "raised"})
            => \A i \in DOMAIN result : InTaxonomy(result[i])

\* A returned list with the sentinel, an absent culture and an empty
\* division in it.
C5_Witness ==
    /\ ReturnedList
    /\ \E i \in DOMAIN response.list :
            /\ "Kultura" \notin DOMAIN response.list[i]
            /\ Get(response.list[i], "Podrazdelenie") = Str("")
    /\ \E i \in DOMAIN response.list :
            Get(response.list[i], "Operaciya") = Str(Undefined)

\* The dates of a parsed document.
DatesOf(doc) ==
    IF "dict" \in DOMAIN doc THEN {Get(doc.dict, "Data")}
    ELSE IF "list" \in DOMAIN doc THEN {Get(doc.list[i], "Data") : i \in DOMAIN doc.list}
    ELSE {}

\* d is the text of a calendar day as DD.MM.YYYY or YYYY-MM-DD.
GoodDate(d) ==
    /\ "sep" \in DOMAIN d
    /\ d.yd = 4
    /\ \/ d.sep = "." /\ IsCalendarDay(d.a, d.b, d.c)
       \/ d.sep = "-" /\ IsCalendarDay(d.c, d.b, d.a)

\* The DD.MM.YYYY text of the day d names.
AsDmY(d) ==
    IF d.sep = "." THEN d
    ELSE [sep |-> ".", a |-> d.c, b |-> d.b, c |-> d.a, yd |-> 4]

\* The document with every date replaced by d.
ReDated(doc, d) ==
    IF "dict" \in DOMAIN doc THEN [dict |-> [doc.dict EXCEPT !["Data"] = d]]
    ELSE [list |-> [i \in DOMAIN doc.list |-> [doc.list[i] EXCEPT !["Data"] = d]]]

\* The latest completion denotes a document all of whose entries are dated.
DatedReply ==
    /\ reply # NoValue
    /\ "msg" \notin DOMAIN reply.val
    /\ \A d \in DatesOf(reply.val) : ~IsNone(d)

\* The stage has taken the latest completion as valid.
Accepted == bpc \in {"primary", "final", "raised"} \/ ReturnedList

\* C6: a completion whose dates are DD.MM.YYYY or YYYY-MM-DD texts, and
\* which is valid but for its dates, is accepted; the date of a returned
\* entry is the DD.MM.YYYY text of the same day; a completion with a date in
\* another format is not accepted.
C6_DatesNormalized ==
    /\ (DatedReply /\ call.kind = "primary"
            /\ (\A d \in DatesOf(reply.val) : GoodDate(d))
            /\ ValidAnswer([reply EXCEPT !.val = ReDated(reply.val, D_dmY)],
                           call.field = Str("Operaciya")))
            => Accepted
    /\ (ReturnedList /\ Len(response.list) > 0)
            => /\ GoodDate(reply.val.dict["Data"])
               /\ response.list[Len(response.list)]["Data"]
                        = AsDmY(reply.val.dict["Data"])
    /\ (DatedReply /\ \E d \in DatesOf(reply.val) : ~GoodDate(d))
            => ~Accepted

\* ------------------------------------------------------------- properties of the bot

\* The (entry index, field) pairs of a list that hold the sentinel.
SentinelPairs(list) ==
    {<<i - 1, k>> : <<i, k>> \in
        {p \in (DOMAIN list) \X Range(KeyOrder) :
            p[2] \in DOMAIN list[p[1]] /\ list[p[1]][p[2]] = Str(Undefined)}}

Position(k) == CHOOSE j \in DOMAIN KeyOrder : KeyOrder[j] = k

\* Pair p comes before pair q: by entry index, then by field order.
Before(p, q) ==
    p[1] < q[1] \/ (p[1] = q[1] /\ Position(p[2]) < Position(q[2]))

\* No message of msgs carries the confirmation keyboard.
NoConfirmation(msgs) == \A j \in DOMAIN msgs : "reply_markup" \notin DOMAIN msgs[j]

\* msgs is one report with the confirmation keyboard.
OneConfirmation(msgs, entries) == msgs = <<Confirmation(entries)>>

\* C7: when build has returned a list with a sentinel in it, the handler
\* stores the list with the queue of exactly the sentinel-holding (entry
\* index, field) pairs, in entry and field order, and cursor 0, sets
\* awaiting_correction, sends one correction prompt and shows no
\* confirmation keyboard.
C7_SentinelStartsCorrection ==
    [][(building # NoValue /\ ReturnedList
            /\ SentinelPairs(response.list) # {})
        => /\ awaiting_correction'
           /\ corrections'.entries = response.list
           /\ corrections'.current_index = 0
           /\ Range(corrections'.queue) = SentinelPairs(response.list)
           /\ \A a, b \in DOMAIN corrections'.queue :
                    a < b => Before(corrections'.queue[a], corrections'.queue[b])
           /\ Len(sent') = 1
           /\ sent'[1].kind = "prompt"
           /\ NoConfirmation(sent')
           /\ keyboards' = keyboards]_vars

\* A correction dialogue has just begun over three fields of two entries.
C7_Witness ==
    /\ awaiting_correction
    /\ corrections # NoValue
    /\ corrections.current_index = 0
    /\ corrections.queue = <<<<0, "Operaciya">>, <<0, "Kultura">>, <<1, "Kultura">>>>
    /\ Len(sent) = 1
    /\ sent[1].kind = "prompt"

\* The session waits for the reply to a queued field.
Pending ==
    /\ awaiting_correction
    /\ corrections # NoValue
    /\ corrections.current_index < Len(corrections.queue)

\* The update is a non-empty text message of an allowed sender.
IsReply(update) == ~update.edited /\ update.allowed /\ ~NoInput(update.text)

\* s is the text without its leading and trailing whitespace.
IsTrimOf(s, toks) ==
    \E i \in 1..(Len(toks) + 1), j \in 0..Len(toks) :
        /\ \A m \in 1..(i - 1) : toks[m] = " "
        /\ \A m \in (j + 1)..Len(toks) : toks[m] = " "
        /\ i <= j => toks[i] # " " /\ toks[j] # " "
        /\ i > j => i = j + 1
        /\ s = Str(Join(SubSeq(toks, i, j)))

\* What the k-th reply does to a dialogue over a queue of n fields.
ReplyStored(update, k, n, e, key) ==
    /\ IsTrimOf(corrections'.entries[e][key], update.text.toks)
    /\ corrections'.current_index = k
    /\ corrections'.queue = corrections.queue
    /\ Len(corrections'.entries) = Len(corrections.entries)
    /\ \A i \in DOMAIN corrections.entries :
         \A f \in DOMAIN corrections.entries[i] \ {"Dannye"} :
            (i # e \/ f # key)
                => /\ f \in DOMAIN corrections'.entries[i]
                   /\ corrections'.entries[i][f] = corrections.entries[i][f]
    /\ IF k < n
       THEN /\ awaiting_correction'
            /\ NoConfirmation(sent')
            /\ keyboards' = keyboards
            /\ \A i \in DOMAIN corrections.entries :
                    DOMAIN corrections'.entries[i] = DOMAIN corrections.entries[i]
       ELSE /\ ~awaiting_correction'
            /\ \A i \in DOMAIN corrections'.entries :
                    "Dannye" \notin DOMAIN corrections'.entries[i]
            /\ corrected_entries' = [list |-> corrections'.entries]
            /\ OneConfirmation(sent', corrections'.entries)
            /\ keyboards' = keyboards + 1

\* C8: while the session awaits corrections the cursor is inside the queue;
\* the k-th non-empty reply is stored, trimmed, in the k-th queued field and
\* changes no other field; before the n-th reply the flag stays, the raw
\* excerpts stay and no confirmation keyboard is shown; the n-th reply
\* clears the flag, removes the raw excerpt of every entry and shows the
\* confirmation keyboard once.
C8_RepliesFillQueue ==
    /\ [](awaiting_correction => Pending)
    /\ [][\A update \in Updates :
            (Pending /\ IsReply(update) /\ prompt(update))
                => ReplyStored(update, corrections.current_index + 1,
                        Len(corrections.queue),
                        corrections.queue[corrections.current_index + 1][1] + 1,
                        corrections.queue[corrections.current_index + 1][2])]_vars

\* A dialogue over two fields has just ended with the confirmation.
C8_Witness ==
    /\ ~awaiting_correction
    /\ corrections # NoValue
    /\ Len(corrections.queue) = 2
    /\ corrections.current_index = 2
    /\ corrected_entries = [list |-> corrections.entries]
    /\ OneConfirmation(sent, corrections.entries)
    /\ corrections.entries[1]["Operaciya"] = Str("chto-to")
    /\ corrections.entries[1]["Kultura"] = Str("Pshenica")

\* C9: every correction prompt names the field at the cursor and shows the
\* raw excerpt of the entry that owns it, and the prompt for a queued field
\* is sent whichever entry owns the field.
C9_PromptShowsOwnExcerpt ==
    /\ \A j \in DOMAIN sent :
            sent[j].kind = "prompt"
                => /\ Pending
                   /\ sent[j].field = corrections.queue[corrections.current_index + 1][2]
                   /\ sent[j].entry_number
                        = corrections.queue[corrections.current_index + 1][1] + 1
                   /\ sent[j].excerpt
                        = corrections.entries
                            [corrections.queue[corrections.current_index + 1][1] + 1]
                            ["Dannye"]
    /\ escaped # "IndexError"

\* C10: in every session state the operation, culture and division of every
\* stored entry, and of every entry of a report shown with the confirmation
\* keyboard, are taxonomy values (culture and division possibly absent or
\* empty).
C10_SessionInTaxonomy ==
    /\ corrections # NoValue
            => \A i \in DOMAIN corrections.entries :
                    InTaxonomy(corrections.entries[i])
    /\ corrected_entries # NoValue
            => \A i \in DOMAIN corrected_entries.list :
                    InTaxonomy(corrected_entries.list[i])
    /\ \A j \in DOMAIN sent :
            sent[j].kind = "report"
                => \A i \in DOMAIN sent[j].entries : InTaxonomy(sent[j].entries[i])

\* A sender outside the allow-list and the admin list has sent a message.
Refused(update) == ~update.edited /\ ~update.allowed

\* C11: a message of a sender who is neither on the allow-list nor an admin
\* is answered with the refusal text and nothing else, in every session
\* state: no attachment notice goes out, no task is left waiting to call
\* build, the builder is not touched, and the awaiting-correction flag, the
\* correction entries, queue and cursor, the corrected entries and the
\* keyboards stay as they were.
C11_DisallowedIsRefused ==
    [][\A update \in Updates :
        (Refused(update) /\ prompt(update))
            => /\ sent' = <<Notice("disallowed")>>
               /\ escaped' = "none"
               /\ UNCHANGED <<bvars, waiting, building>>
               /\ UNCHANGED <<awaiting_correction, corrections,
                              corrected_entries, keyboards>>]_vars

\* The refusal went out while a correction dialogue was under way.
C11_Witness ==
    /\ sent = <<Notice("disallowed")>>
    /\ Pending
    /\ corrections.current_index = 1
    /\ bpc = "idle"

\* C12: pressing either confirmation button sends exactly one notice (the
\* confirmation for final_yes, the warning for final_no) and leaves the
\* session idle with no correction state: the awaiting-correction flag, the
\* correction entries, queue and cursor, and the corrected entries are all
\* absent from user_data.
C12_ButtonClearsSession ==
    [][\A data \in {"final_yes", "final_no"} :
        button_callback(data)
            => /\ sent' = <<Notice(IF data = "final_yes" THEN "saved"
                                    ELSE "not_saved")>>
               /\ ~awaiting_correction'
               /\ corrections' = NoValue
               /\ corrected_entries' = NoValue]_vars

\* The cursor of the stored dialogue is past fields already answered and
\* before fields still to answer.
PartlyAdvanced ==
    /\ corrections # NoValue
    /\ corrections.current_index > 0
    /\ corrections.current_index < Len(corrections.queue)

\* C13: after an exception has escaped a message handler, also one raised
\* while a correction reply was handled, the session is idle without
\* residue: the awaiting-correction flag is unset and no partly advanced
\* correction queue is left to take the user's next message.
C13_EscapeLeavesIdle ==
    escaped # "none" => ~awaiting_correction /\ ~PartlyAdvanced

\* The completion of the latest JSON-repair call did not parse or validate.
RepairFailed ==
    /\ call # NoValue
    /\ call.kind = "json"
    /\ ValidateCorrectedJson(reply, processing_steps[stage].initial).exc # "none"

\* The try block of _validate raised on the latest primary completion
\* something that none of its named except clauses takes, and that is not
\* the "cannot be processed" sentinel.
UnexpectedInTry ==
    /\ call # NoValue
    /\ call.kind = "primary"
    /\ clean_string(reply) # Prose(CANNOT_PROCESS)
    /\ _validate(reply, processing_steps[stage].initial).exc
            \notin {"none", "ValidationError", "JSONDecodeError"}

\* Stage validation of the build the bot runs has ended in an unexpected
\* failure.
UnexpectedFailure ==
    /\ building # NoValue
    /\ bpc \in {"returned", "raised"}
    /\ RepairFailed \/ UnexpectedInTry

\* The fixed text, as the front end shows it.
FixedText == [kind |-> "text", text |-> ERROR_TEXT]

\* C14: an unexpected failure inside stage validation (also a JSON repair
\* whose output fails to parse again) leaves build as an exception, and the
\* front end reports it as a failure to retry, not as the fixed "cannot be
\* processed" text.
C14_FailurePropagates ==
    [][UnexpectedFailure
        => /\ bpc = "raised"
           /\ escaped' # "none"
           /\ \A j \in DOMAIN sent' : sent'[j] # FixedText]_vars

\* C14, amended: an unexpected failure inside stage validation (also a JSON
\* repair whose output fails to parse again) does not leave build: build
\* returns ERROR_TEXT, the front end shows that fixed text and nothing
\* else, no exception reaches the error handler and the session is as it
\* was.
C14_FailureShownAsFixedText ==
    [][UnexpectedFailure
        => /\ ReturnedError
           /\ sent' = <<FixedText>>
           /\ escaped' = "none"
           /\ UNCHANGED <<awaiting_correction, corrections, corrected_entries,
                          keyboards>>]_vars

\* The bot's build has returned the fixed text after a JSON repair that did
\* not parse.
C14_Witness ==
    /\ building # NoValue
    /\ ReturnedError
    /\ RepairFailed
    /\ ncalls = 2

\* The eight display labels: date, operation, culture, division and the
\* four area/yield figures.
DisplayLabels == {"Data", "Operaciya", "Kultura", "Podrazdelenie"} \cup Labels

\* C15: no entry of a list build returns has the raw-excerpt field: the
\* keys of every entry are among the eight display labels.
C15_NoRawExcerpt ==
    ReturnedList
        => \A i \in DOMAIN response.list :
                DOMAIN response.list[i] \subseteq DisplayLabels

\* C15, amended: every entry of a list build returns has the raw-excerpt
\* field, and its other keys are among the eight display labels.
C15_RawExcerptKept ==
    ReturnedList
        => \A i \in DOMAIN response.list :
                /\ "Dannye" \in DOMAIN response.list[i]
                /\ DOMAIN response.list[i] \ {"Dannye"} \subseteq DisplayLabels

\* build has returned two entries, one with and one without a division.
C15_Witness ==
    /\ ReturnedList
    /\ Len(response.list) = 2
    /\ "Podrazdelenie" \in DOMAIN response.list[1]
    /\ "Podrazdelenie" \notin DOMAIN response.list[2]
    /\ Labels \subseteq DOMAIN response.list[2]

\* The fields each stage is there to fill, by their names in a validated
\* entry.
StageTargets ==
    <<{}, {"Kultura"}, {"Podrazdelenie"}, Range(RenamedFields)>>

\* A per-entry stage has just taken an entry as validated.
EntryValidated ==
    /\ stage > 1
    /\ bpc \in {"primary", "fields", "json"}
    /\ bpc' \in {"primary", "final"}

\* The entry the step put out for the input entry result[idx].
OutputEntry ==
    IF idx < Len(result) THEN validated'[Len(validated')] ELSE result'[idx]

\* Entries a and b have the same fields with the same values outside T.
SameOutside(a, b, T) ==
    /\ DOMAIN a \ T = DOMAIN b \ T
    /\ \A k \in DOMAIN a \ T : a[k] = b[k]

\* C16: a per-entry refinement stage only adds or updates its target
\* fields: date, operation, raw excerpt and every field an earlier stage
\* set are in the stage's output entry what they are in its input entry,
\* whatever the completion holds for them.
C16_StageKeepsOtherFields ==
    [][EntryValidated
        => SameOutside(result[idx], OutputEntry, StageTargets[stage])]_vars

\* A build started by a message that came in while the session was idle
\* has returned a list with sentinels while the dialogue of an earlier
\* build is still waiting for replies.
SecondBuildReturned ==
    /\ Pending
    /\ building # NoValue
    /\ ReturnedList
    /\ SentinelPairs(response.list) # {}

\* C17: with concurrent updates two messages of one session race on the
\* correction state: both come in while the session is idle, both start a
\* build, and when the second build returns, the entries, queue and cursor
\* stored for the first are replaced by the second's although the first
\* queue was not exhausted; nothing of the first dialogue is kept.
C17_SecondBuildReplacesDialogue ==
    [][SecondBuildReturned
        => /\ corrections' = [entries |-> response.list,
                              queue |-> corrections_queue(response.list),
                              current_index |-> 0]
           /\ awaiting_correction'
           /\ UNCHANGED corrected_entries]_vars

\* The second build has returned after the user answered the first of the
\* two questions of the first report; its report is another one.
C17_Witness ==
    /\ SecondBuildReturned
    /\ Len(corrections.queue) = 2
    /\ corrections.current_index = 1
    /\ Len(response.list) # Len(corrections.entries)
    /\ handled = 3

\* ------------------------------------------------------------- properties of the persistence layer

\* C18: update_record_by_id with an identifier no row has returns None,
\* raises nothing and changes no row; with the identifier of a row and a
\* partial field map it sets, in that row, exactly the columns the map
\* names among the eight known fields, leaves the row's other columns and
\* every other row as they were, and returns the updated row.
C18_UpdateChangesNamedColumns ==
    [][\A record_id \in RecordIds, new_data \in NewDatas :
        update_record_by_id(record_id, new_data)
            => /\ db_raised' = "none"
               /\ Len(table') = Len(table)
               /\ record_id \notin IdsOf(table)
                    => table' = table /\ db_returned' = PyNone
               /\ \A i \in DOMAIN table :
                    IF table[i][Column("id")] # record_id
                    THEN table'[i] = table[i]
                    ELSE /\ db_returned' = [row |-> table'[i]]
                         /\ \A name \in Range(Columns) :
                                table'[i][Column(name)] =
                                    IF name \in KnownFields \cap DOMAIN new_data
                                    THEN new_data[name]
                                    ELSE table[i][Column(name)]]_vars

\* The second of two rows was updated in unit and culture and in nothing
\* else.
C18_Witness ==
    /\ Len(table) = 2
    /\ "row" \in DOMAIN db_returned
    /\ db_returned.row = table[2]
    /\ table[2][Column("unit")] = Str("c")
    /\ table[2][Column("cultura")] = PyNone
    /\ table[2][Column("date")] = Str("a")
    /\ table[2][Column("operation")] = Str("b")
    /\ table[1][Column("unit")] = Str("a")
    /\ commits = <<1>>

\* Every record names columns only.
AllConstruct(records) ==
    \A j \in DOMAIN records : DOMAIN records[j] \subseteq Range(Columns)

\* Value w of a data frame is value v of a mapping or a row.
Matches(v, w) ==
    \/ v = w
    \/ v = PyNone /\ "nan" \in DOMAIN w
    \/ "int" \in DOMAIN v /\ "float" \in DOMAIN w /\ v.int = w.float

\* The data frame get_all_models_as_dataframe makes of rows.
FrameOf(rows) == DataFrame([i \in DOMAIN rows |-> to_dict(rows[i])]).rows

\* C19: insert_objects on N valid record mappings adds exactly N rows, in
\* one commit, and a get_all_models_as_dataframe after it returns the rows
\* of the table, the new ones with the values of their mappings (N rows on
\* a table that was empty); when an entity cannot be constructed from its
\* mapping, no row of the batch is added.
C19_InsertAddsBatch ==
    /\ [][\A records \in Batches :
            insert_objects(records)
                => IF ~AllConstruct(records)
                   THEN table' = table /\ commits' = <<>> /\ db_raised' # "none"
                   ELSE db_raised' = "none"
                        => /\ Len(table') = Len(table) + Len(records)
                           /\ SubSeq(table', 1, Len(table)) = table
                           /\ commits' = <<Len(records)>>
                           /\ \A j \in DOMAIN records :
                                \A name \in DOMAIN records[j] :
                                    Matches(records[j][name],
                                            FrameOf(table')[Len(table) + j][name])]_vars
    /\ [][get_all_models_as_dataframe
            => /\ table' = table
               /\ "rows" \in DOMAIN db_returned'
               /\ Len(db_returned'.rows) = Len(table)
               /\ \A i \in DOMAIN table :
                    \A name \in Range(Columns) :
                        Matches(table[i][Column(name)], db_returned'.rows[i][name])]_vars

\* Two mappings were inserted into the empty table and read back.
C19_Witness ==
    /\ db_calls = 2
    /\ Len(table) = 2
    /\ "rows" \in DOMAIN db_returned
    /\ Len(db_returned.rows) = 2
    /\ db_returned.rows[1]["operation"] = Str("a")
    /\ db_returned.rows[1]["GA_per_day"] = [float |-> 10]
    /\ db_returned.rows[2]["operation"] = Str("b")
    /\ db_returned.rows[2]["GA_per_day"] = [nan |-> TRUE]

\* ------------------------------------------------------------- properties of the dashboard

\* C20: in each of the three filter modes a run of the dashboard exports
\* the filtered dataset, offers the download control under a file name
\* whose start and end dates are defined, and renders the three tabbed
\* views.
C20_EveryModeOffersDownload ==
    runs > 0
        => /\ output = [sheet_name |-> "Otchet", rows |-> df]
           /\ dash_raised = "none"
           /\ download # NoValue
           /\ start_date # Unbound
           /\ end_date # Unbound
           /\ Cardinality(tabs) = 3


\* ------------------------------------------------------------- properties of main

\* The required names os.environ lacks.
AbsentNames == {name \in Range(required_values) : environ[name] = Absent}

\* C21: a start with a required value absent logs exactly the absent names
\* and ends with status 1 with neither the builder nor the bot constructed; a
\* start with all five present constructs the builder, then the bot, and runs
\* it.
C21_MissingValuesHaltStartup ==
    starts > 0 =>
        IF AbsentNames # {}
        THEN /\ logged # NoValue
             /\ Range(logged.names) = AbsentNames
             /\ Len(logged.names) = Cardinality(AbsentNames)
             /\ exit_status = PyInt(1)
             /\ constructed = <<>>
             /\ ~running
        ELSE /\ logged = NoValue
             /\ exit_status = NoValue
             /\ Len(constructed) = 2
             /\ constructed[1].class = "ReportBuilder"
             /\ constructed[2].class = "AgroReportTelegramBot"
             /\ running

\* A start that halted with two names absent, the others set by the process
\* or by the .env file.
C21_Witness ==
    /\ starts > 0
    /\ exit_status = PyInt(1)
    /\ Len(logged.names) = 2
    /\ {Str("p"), Str("f")} \subseteq Range(environ)


\* ------------------------------------------------------------- more of the dialogue

\* A new message of an allowed sender.
FromAllowed(update) == ~update.edited /\ update.allowed

\* No task was queued for a build and none is building.
NoBuildStarted ==
    /\ waiting' = waiting
    /\ building' = building
    /\ bpc' = bpc

\* C22: while the session awaits a correction, a message of an allowed sender
\* starts no build, and one without text is answered with the request to
\* enter a value and leaves the entries, the queue and the cursor as they
\* were.
C22_AwaitingConsumesMessages ==
    [][\A update \in Updates :
        (awaiting_correction /\ FromAllowed(update) /\ prompt(update)) =>
            /\ NoBuildStarted
            /\ IsNone(update.text) =>
                    /\ sent' = <<Notice("enter_value")>>
                    /\ corrections' = corrections
                    /\ awaiting_correction']_vars

\* In the middle of a dialogue of two fields, a message without text was
\* answered with the request.
C22_Witness ==
    /\ awaiting_correction
    /\ corrections # NoValue
    /\ corrections.current_index = 1
    /\ Len(corrections.queue) = 2
    /\ sent = <<Notice("enter_value")>>


\* ------------------------------------------------------------- more of build

\* A model.predict call was made in a per-entry stage.
PredictInEntryStage == ncalls' = ncalls + 1 /\ stage > 1

\* What _validate makes of the completion of the call just made.
CallOutcome ==
    CASE call'.kind = "primary" -> _validate(reply', FALSE)
      [] call'.kind = "fields" -> ValidateCorrectedFields(reply', FALSE)
      [] OTHER -> ValidateCorrectedJson(reply', FALSE)

\* The entry at the loop's position is done: val is the output at that
\* position, after the outputs of the earlier positions.
EntryDone(val) ==
    IF idx < Len(result)
    THEN /\ validated' = Append(validated, val)
         /\ idx' = idx + 1
         /\ result' = result
         /\ stage' = stage
         /\ bpc' = "primary"
    ELSE /\ result' = Append(validated, val)
         /\ Len(result') = Len(result)

\* build holds a list of entries.
HoldsList == stage > 1 /\ bpc \in {"primary", "fields", "json", "final"}

\* C23: in a per-entry stage the primary call is made once per input entry,
\* at the entry the loop is at, and the output at that position is the
\* validated completion (of that call or of its one corrective call), so a
\* stage returns a list of the same length in the same order; and the list
\* build returns is as long as the one the initial extraction validated.
C23_OneCallPerEntry ==
    /\ [][PredictInEntryStage =>
            /\ Len(validated) = idx - 1
            /\ idx <= Len(result)
            /\ (call'.kind = "primary") = (bpc = "primary")
            /\ IF CallOutcome.exc = "none"
               THEN EntryDone(CallOutcome.val)
               ELSE IF bpc = "primary"
                        /\ CallOutcome.exc \in {"ValidationError", "JSONDecodeError"}
               THEN /\ bpc' \in {"fields", "json"}
                    /\ idx' = idx
                    /\ validated' = validated
                    /\ result' = result
               ELSE bpc' = "returned" /\ response' = ERROR_TEXT]_vars
    /\ [][(HoldsList /\ bpc' \in {"primary", "fields", "json", "final",
                                   "raised"})
            => Len(result') = Len(result)]_vars
    /\ [][(bpc = "final" /\ bpc' = "returned")
            => Len(response'.list) = Len(result)]_vars

\* build returned a list of two entries after one model.predict call for
\* the extraction and one or two for each entry of each later stage.
C23_Witness ==
    /\ ReturnedList
    /\ Len(response.list) = 2
    /\ ncalls > 7


\* ------------------------------------------------------------- concurrent replies

\* The (entry, field) positions, raw excerpts aside, whose value the step
\* changed.
ChangedFields ==
    {p \in (DOMAIN corrections.entries) \X (Range(KeyOrder) \ {"Dannye"}) :
        /\ p[2] \in DOMAIN corrections.entries[p[1]]
        /\ \/ p[2] \notin DOMAIN corrections'.entries[p[1]]
           \/ corrections'.entries[p[1]][p[2]] # corrections.entries[p[1]][p[2]]}

\* The queue position the cursor is at, as an (entry, field) position.
AtCursor ==
    <<corrections.queue[corrections.current_index + 1][1] + 1,
      corrections.queue[corrections.current_index + 1][2]>>

\* The step moved the cursor one position on in the same queue.
CursorAdvanced ==
    /\ corrections'.current_index = corrections.current_index + 1
    /\ corrections'.queue = corrections.queue
    /\ Len(corrections'.entries) = Len(corrections.entries)

\* C24: however the handlers of the updates of one session interleave, a
\* non-empty reply handled while the session awaits a correction moves the
\* cursor one position on and writes the field the cursor was at and no
\* other; the cursor moves in no other way than to the start of a new
\* dialogue, and it stays between 0 and the length of the queue.
C24_RepliesAdvanceInOrder ==
    /\ [](corrections # NoValue =>
            corrections.current_index \in 0..Len(corrections.queue))
    /\ [][\A update \in Updates :
            (awaiting_correction /\ IsReply(update) /\ prompt(update)) =>
                /\ CursorAdvanced
                /\ ChangedFields \subseteq {AtCursor}
                /\ corrections'.entries[AtCursor[1]][AtCursor[2]]
                        = strip(update.text)]_vars
    /\ [][(corrections # NoValue /\ corrections' # corrections) =>
            \/ CursorAdvanced /\ awaiting_correction
            \/ corrections'.current_index = 0 /\ building # NoValue]_vars

\* A reply was handled in the middle of a dialogue of two fields while the
\* task of another report is suspended before its build.
C24_Witness ==
    /\ awaiting_correction
    /\ corrections # NoValue
    /\ corrections.current_index = 1
    /\ Len(corrections.queue) = 2
    /\ corrections.entries[corrections.queue[1][1] + 1][corrections.queue[1][2]]
            = Str("Pshenica")
    /\ \E query_text \in DOMAIN waiting : waiting[query_text] > 0


\* ------------------------------------------------------------- termination of build

\* build is running.
Running == bpc \in {"primary", "fields", "json", "final"}

\* The model.predict calls a build over n extracted entries may make.
CallBudget(n) == 2 * (1 + 3 * n)

\* What a running build has left: stages, entries of the stage, calls of
\* the entry.
Rank ==
    IF ~Running THEN <<0, 0, 0>>
    ELSE IF bpc = "final" THEN <<1, 0, 0>>
    ELSE <<Len(processing_steps) + 2 - stage,
           IF stage = 1 THEN 1 ELSE Len(result) + 1 - idx,
           IF bpc = "primary" THEN 2 ELSE 1>>

\* a comes before b in the lexicographic order.
LexLess(a, b) ==
    \/ a[1] < b[1]
    \/ a[1] = b[1] /\ a[2] < b[2]
    \/ a[1] = b[1] /\ a[2] = b[2] /\ a[3] < b[3]

\* C25: a build that was called ends, each of its steps leaving less to do;
\* a corrective call is made only after a primary call and is followed by no
\* second corrective call of the same validation; and the model.predict
\* calls of a build stay within 2 during the extraction and within
\* 2 * (1 + 3 * N) over N extracted entries.
C25_BuildTerminates ==
    /\ Running ~> (bpc \in {"returned", "raised"})
    /\ [][Running => LexLess(Rank', Rank)]_vars
    /\ [][(ncalls' = ncalls + 1 /\ call'.kind # "primary") =>
            /\ call.kind = "primary"
            /\ bpc \in {"fields", "json"}
            /\ bpc' \notin {"fields", "json"}]_vars
    /\ [][(ncalls' = ncalls + 1) =>
            IF stage = 1 THEN ncalls' <= 2
            ELSE ncalls' <= CallBudget(Len(result))]_vars

\* build returned a list of two entries after the extraction and every
\* validation of the culture and division stages took a corrective call.
C25_Witness ==
    /\ ReturnedList
    /\ Len(response.list) = 2
    /\ ncalls = 12

====
